---- MODULE Spec2Model ----
(***************************************************************************)
(* eth-proxy: the node-pool manager (package nodemanager, ClientManager).  *)
(* Health-aware round-robin selection (NextNode), the balance query with   *)
(* cache, retry and failover (GetBalance, fetchBalanceFromNode), the       *)
(* background health prober (StartHealthChecks, CheckNodeHealth) and the   *)
(* cooldown task (cooldownNode).                                           *)
(*                                                                         *)
(* Goroutines interleave at the points where the code can be preempted     *)
(* with an effect on shared state: NextNode holds m.mu for its whole scan, *)
(* but the Healthy flag it reads is written by CheckNodeHealth,            *)
(* cooldownNode and GetBalance (line 259) without the lock, so the scan    *)
(* is one step per loop iteration.                                         *)
(***************************************************************************)
EXTENDS Integers, Sequences, FiniteSets, TLC

VARIABLES
    Nodes,         \* ClientManager.Nodes: sequence of [Healthy, ErrorCount]; a node's Name is its position
    index,         \* ClientManager.index, 0-based cursor
    lastNodeName,  \* ClientManager.lastNodeName (0 is the empty string)
    Cache,         \* ClientManager.Cache: address -> CacheItem
    mu,            \* ClientManager.mu: 0 when free, else the caller inside NextNode
    now,           \* the wall clock, in seconds
    env,           \* the process environment read by GetBalance
    upstream,      \* how the server behind each node answers
    req,           \* one record per concurrent caller of GetBalance
    probe,         \* one record per node: its health-check goroutine
    selHist,       \* the NextNode calls since the last health change, as <<cursor before, node returned>>
    started,       \* StartHealthChecks has been called
    cooldowns,     \* per node, the wake-up times of its sleeping cooldownNode goroutines
    crashed,       \* the process died of a panic
    budget,        \* operations begun so far in Spec: [calls, probes]
    obs,           \* the goroutine that asks IsReady and GetNodeName
    dispatched     \* [node, thenNone]: the node of the latest NextNode call that returned one (0: none
                   \* yet), and whether a call has returned none since

vars == <<Nodes, index, lastNodeName, Cache, mu, now, env, upstream, req, probe,
          selHist, started, cooldowns, crashed, budget, obs, dispatched>>

(***************************************************************************)
(* Bounds of the model.                                                    *)
(***************************************************************************)
MaxNodes == 2        \* pool sizes 0..MaxNodes
MaxCallers == 1      \* callers of GetBalance running beside the prober in Spec
MaxFine == 1         \* one-second ticks explored after each long sleep
MaxJumps == 1        \* long sleeps (of CooldownDelay seconds) explored
MaxCalls == 2        \* requests (GetBalance, IsReady, GetNodeName) followed in Spec
MaxProbes == 4       \* health probes followed in Spec

(***************************************************************************)
(* Program constants.                                                      *)
(***************************************************************************)
DefaultTimeoutSecs == 5
DefaultMaxRetries == 3
DefaultCacheExpirationSecs == 60
ErrorThreshold == 3
CooldownDelay == 60
StatusOK == 200
StatusError == 500

Addresses == {"0xA"}
NoAddr == "none"

(***************************************************************************)
(* The environment: os.Getenv gives "" for an unset variable, and          *)
(* strconv.Atoi fails on "" and on anything that is not a decimal integer. *)
(***************************************************************************)
Unset == [kind |-> "unset", val |-> 0]
Junk == [kind |-> "junk", val |-> 0]
Num(n) == [kind |-> "num", val |-> n]

Atoi(raw) == [err |-> raw.kind # "num", val |-> IF raw.kind = "num" THEN raw.val ELSE 0]

TimeoutSecsOf(e) ==
    LET p == Atoi(e.NODE_REQUEST_TIMEOUT_SECONDS)
    IN IF p.err \/ p.val <= 0 THEN DefaultTimeoutSecs ELSE p.val

\* variant: zero retries is replaced by the default as well
MaxRetriesPositive(e) ==
    LET p == Atoi(e.MAX_RETRIES)
    IN IF p.err \/ p.val <= 0 THEN DefaultMaxRetries ELSE p.val

MaxRetriesOf(e) ==
    LET p == Atoi(e.MAX_RETRIES)
    IN IF p.err \/ p.val < 0 THEN DefaultMaxRetries ELSE p.val

CacheExpirationSecsOf(e) ==
    LET p == Atoi(e.CACHE_EXPIRATION_SECONDS)
    IN IF p.err \/ p.val <= 0 THEN DefaultCacheExpirationSecs ELSE p.val

(***************************************************************************)
(* Upstream servers.  A server answers eth_getBalance the same way for     *)
(* its whole life ("ok", "bad", "slow") or either way ("flaky").  The      *)
(* balances are the ones of the repository's test servers.                 *)
(***************************************************************************)
Behaviours == {"ok", "bad", "slow", "flaky"}

BalanceOf(n) == IF n = 1 THEN "0x10" ELSE IF n = 2 THEN "0x1" ELSE "0x0"

Transport == [kind |-> "transport", status |-> 0, body |-> "none", result |-> ""]
Deadline == [kind |-> "deadline", status |-> 0, body |-> "none", result |-> ""]
NoResp == [kind |-> "none", status |-> 0, body |-> "none", result |-> ""]
Http(status, body, result) == [kind |-> "http", status |-> status, body |-> body, result |-> result]

OkResponses(n) == {Http(StatusOK, "result", BalanceOf(n))}
BadResponses ==
    {Transport, Http(StatusError, "result", ""), Http(StatusOK, "garbage", ""),
     Http(StatusOK, "rpcerror", "")}

\* a degraded server answers every request with status 200, at times with a
\* body that carries no result
DegradedResponses(n) ==
    OkResponses(n) \cup {Http(StatusOK, "garbage", ""), Http(StatusOK, "rpcerror", "")}

\* What httpClient.Do can give for a request sent at sentAt under a deadline of
\* timeoutSecs: a slow server's answer never arrives before the deadline.
Responses(n, sentAt, timeoutSecs) ==
    CASE upstream[n] = "ok" -> OkResponses(n)
      [] upstream[n] = "bad" -> BadResponses
      [] upstream[n] = "flaky" -> OkResponses(n) \cup BadResponses
      [] upstream[n] = "degraded" -> DegradedResponses(n)
      [] OTHER -> IF now >= sentAt + timeoutSecs THEN {Deadline} ELSE {}

\* variant: the hexadecimal result is turned into decimal digits
HexToDecimal(h) ==
    IF h = "0x10" THEN "16" ELSE IF h = "0x1" THEN "1" ELSE IF h = "0x0" THEN "0" ELSE h

fetchBalanceDecimal(resp) ==
    IF resp.kind # "http" THEN [balance |-> "", err |-> resp.kind]
    ELSE IF resp.status # StatusOK THEN [balance |-> "", err |-> "status"]
    ELSE IF resp.body = "garbage" THEN [balance |-> "", err |-> "decode"]
    ELSE IF resp.body = "rpcerror" THEN [balance |-> "", err |-> "rpc"]
    ELSE [balance |-> HexToDecimal(resp.result), err |-> "nil"]

\* variant: the error object of the JSON-RPC envelope is not looked at
fetchBalanceIgnoringRpcError(resp) ==
    IF resp.kind # "http" THEN [balance |-> "", err |-> resp.kind]
    ELSE IF resp.status # StatusOK THEN [balance |-> "", err |-> "status"]
    ELSE IF resp.body = "garbage" THEN [balance |-> "", err |-> "decode"]
    ELSE [balance |-> resp.result, err |-> "nil"]

\* fetchBalanceFromNode: (balance, err) from what the HTTP client gave.
fetchBalanceFromNode(resp) ==
    IF resp.kind # "http" THEN [balance |-> "", err |-> resp.kind]
    ELSE IF resp.status # StatusOK THEN [balance |-> "", err |-> "status"]
    ELSE IF resp.body = "garbage" THEN [balance |-> "", err |-> "decode"]
    ELSE IF resp.body = "rpcerror" THEN [balance |-> "", err |-> "rpc"]
    ELSE [balance |-> resp.result, err |-> "nil"]

(***************************************************************************)
(* Errors GetBalance returns.                                              *)
(***************************************************************************)
ErrNil == [kind |-> "nil", retries |-> 0, last |-> "nil"]
ErrNoHealthy == [kind |-> "no healthy Ethereum Nodes available", retries |-> 0, last |-> "nil"]
ErrExhausted(maxRetries, lastErr) ==
    [kind |-> "failed to fetch balance after retries", retries |-> maxRetries, last |-> lastErr]

\* utils.ErrInvalidAddress
ErrInvalidAddress == [kind |-> "invalid Ethereum address", retries |-> 0, last |-> "nil"]

(***************************************************************************)
(* The HTTP handler (src/internal/handler/proxyhandler.go, lines 22-51).   *)
(* A request path is the address after "/eth/balance/", with the two       *)
(* things the format check looks at: its length and its "0x" prefix.       *)
(***************************************************************************)
StatusBadRequest == 400
StatusInternalServerError == 500
AddressLen == 42

Path(address, len, hex) == [address |-> address, len |-> len, hex |-> hex]
NoPath == Path(NoAddr, 0, FALSE)

Paths ==
    {Path("0xA", AddressLen, TRUE),        \* well formed
     Path("", 0, FALSE),                   \* missing
     Path("0xInvalid", 9, TRUE),           \* too short
     Path("zz", AddressLen, FALSE)}        \* 42 characters without the prefix

\* variant: only the prefix is looked at
IsValidPrefixOnly(p) == p.hex

\* utils.IsValidEthereumAddress (src/utils/utils.go, lines 40-43)
IsValidEthereumAddress(p) == p.len = AddressLen /\ p.hex

NoAnswer == [status |-> 0, body |-> ""]

\* lines 29-33: the guard of the handler
Rejected(p) == p.address = "" \/ ~IsValidEthereumAddress(p)

\* lines 36-49: the answer to what GetBalance returned
RespondTo(balance, err) ==
    IF err = ErrNil THEN [status |-> StatusOK, body |-> balance]
    ELSE IF err = ErrInvalidAddress
    THEN [status |-> StatusBadRequest, body |-> err.kind]
    ELSE [status |-> StatusInternalServerError, body |-> "Internal server error"]

(***************************************************************************)
(* NewClientManager.                                                       *)
(***************************************************************************)
NewNode == [Healthy |-> TRUE, ErrorCount |-> 0]
EmptyCache == [a \in {} |-> 0]

IdleReq ==
    [pc |-> "idle", address |-> NoAddr, timeoutSecs |-> 0, maxRetries |-> 0,
     cacheExpirationSecs |-> 0, i |-> 0,
     \* the HTTP request the call serves, if any, and the handler's answer
     http |-> FALSE, path |-> NoPath, answer |-> NoAnswer,
     startIdx |-> 0, attempt |-> 0, node |-> 0, sentAt |-> 0, balance |-> "",
     fetchErr |-> "nil", lastErr |-> "nil", ret |-> "", err |-> ErrNil,
     \* observations of the call, for the properties
     lastResp |-> NoResp,
     calls |-> 0, selections |-> 0, healthy0 |-> FALSE, cursor0 |-> 0,
     someUp |-> FALSE, allDown |-> FALSE, inspected |-> 0, picked |-> 0, pickedUp |-> FALSE]

NoBudget == [calls |-> 0, probes |-> 0, limited |-> TRUE]

\* every call and probe is followed, however many there are
Unlimited == [calls |-> 0, probes |-> 0, limited |-> FALSE]

\* the goroutine of a readiness or node-name request, between two requests
IdleObs ==
    [pc |-> "idle", op |-> "none", k |-> 0, ret |-> FALSE, name |-> 0,
     \* observations of the call, for the properties
     someUp |-> FALSE, allDown |-> FALSE, expect |-> 0]

IdleProbe == [pc |-> "idle", noResp |-> FALSE, status |-> 0]

NewClientManager(n) ==
    /\ Nodes = [k \in 1..n |-> NewNode]
    /\ index = 0
    /\ lastNodeName = 0
    /\ Cache = EmptyCache
    /\ mu = 0
    /\ selHist = <<>>
    /\ cooldowns = [k \in 1..n |-> <<>>]
    /\ probe = [k \in 1..n |-> IdleProbe]
    /\ crashed = FALSE
    /\ obs = IdleObs
    /\ dispatched = [node |-> 0, thenNone |-> FALSE]

Envs(timeouts, retries, expirations) ==
    [NODE_REQUEST_TIMEOUT_SECONDS : timeouts, MAX_RETRIES : retries,
     CACHE_EXPIRATION_SECONDS : expirations]

(***************************************************************************)
(* Observations kept for the properties: they change no program state.     *)
(***************************************************************************)
AnyHealthy(nodes) == \E k \in 1..Len(nodes) : nodes[k].Healthy
AllHealthy(nodes) == \A k \in 1..Len(nodes) : nodes[k].Healthy

\* A caller inside NextNode notes whether, at every moment of its scan so far,
\* some node was healthy (someUp) or no node was (allDown).
Watch(rq, nodes) ==
    [r \in DOMAIN rq |->
        IF rq[r].pc = "scan"
        THEN [rq[r] EXCEPT !.someUp = @ /\ AnyHealthy(nodes),
                           !.allDown = @ /\ ~AnyHealthy(nodes)]
        ELSE rq[r]]

\* The same for the goroutine inside IsReady.
WatchObs(o, nodes) ==
    IF o.pc = "scan"
    THEN [o EXCEPT !.someUp = @ /\ AnyHealthy(nodes), !.allDown = @ /\ ~AnyHealthy(nodes)]
    ELSE o

\* The selections since the last change of a Healthy flag.
HistAfterWrite(nodes) ==
    IF \E k \in 1..Len(nodes) : nodes[k].Healthy # Nodes[k].Healthy THEN <<>> ELSE selHist

HistAfterSelect(cursor, k, inspected) ==
    LET h == Append(selHist, <<cursor, k>>)
    IN IF k = 0 \/ ~AllHealthy(Nodes) \/ inspected > 1 THEN <<>>
       ELSE IF Len(h) > Len(Nodes) THEN Tail(h) ELSE h

\* Spec follows a bounded number of calls and probes once the health checks run.
CanSpend(what, max) == ~started \/ ~budget.limited \/ budget[what] < max

Spent(what) == IF started /\ budget.limited THEN [budget EXCEPT ![what] = @ + 1] ELSE budget

(***************************************************************************)
(* NextNode, one loop iteration per step (lines 80-97).                    *)
(***************************************************************************)
LoopGuard(attempt, n) == attempt < n

NodeAt(idx) == idx + 1

\* variant: the cursor is not moved
AdvanceStuck(idx, n) == idx % n

Advance(idx, n) == (idx + 1) % n

IsHealthy(node) == node.Healthy

WrappedAround(idx, startIdx) == idx = startIdx

\* variant: after a full circle the last node inspected is handed out
ScanIterFallback(nodes, idx, startIdx, attempt) ==
    IF ~LoopGuard(attempt, Len(nodes))
    THEN [out |-> "nil", node |-> 0, index |-> idx, seen |-> 0]
    ELSE LET k == NodeAt(idx)
             idx2 == Advance(idx, Len(nodes))
         IN IF IsHealthy(nodes[k]) \/ WrappedAround(idx2, startIdx)
            THEN [out |-> "node", node |-> k, index |-> idx2, seen |-> 1]
            ELSE [out |-> "more", node |-> 0, index |-> idx2, seen |-> 1]

\* variant: a call that finds no healthy node puts the cursor back to 0
ScanIterResetOnNone(nodes, idx, startIdx, attempt) ==
    IF ~LoopGuard(attempt, Len(nodes))
    THEN [out |-> "nil", node |-> 0, index |-> 0, seen |-> 0]
    ELSE LET k == NodeAt(idx)
             idx2 == Advance(idx, Len(nodes))
         IN IF IsHealthy(nodes[k]) THEN [out |-> "node", node |-> k, index |-> idx2, seen |-> 1]
            ELSE IF WrappedAround(idx2, startIdx)
                 THEN [out |-> "nil", node |-> 0, index |-> 0, seen |-> 1]
                 ELSE [out |-> "more", node |-> 0, index |-> idx2, seen |-> 1]

\* out: "node" (return node), "nil" (return nil) or "more" (next iteration).
ScanIter(nodes, idx, startIdx, attempt) ==
    IF ~LoopGuard(attempt, Len(nodes))
    THEN [out |-> "nil", node |-> 0, index |-> idx, seen |-> 0]
    ELSE LET k == NodeAt(idx)
             idx2 == Advance(idx, Len(nodes))
         IN IF IsHealthy(nodes[k]) THEN [out |-> "node", node |-> k, index |-> idx2, seen |-> 1]
            ELSE IF WrappedAround(idx2, startIdx)
                 THEN [out |-> "nil", node |-> 0, index |-> idx2, seen |-> 1]
                 ELSE [out |-> "more", node |-> 0, index |-> idx2, seen |-> 1]

\* variant: the name of the node inspected last is recorded even when none is returned
RecordNameAlways(last, s) == IF s.seen = 1 THEN NodeAt((s.index + Len(Nodes) - 1) % Len(Nodes)) ELSE last

\* lines 84-86: m.lastNodeName = node.Name, only on the way out with a node
RecordName(last, s) == IF s.out = "node" THEN s.node ELSE last

(***************************************************************************)
(* GetBalance (lines 199-266).                                             *)
(***************************************************************************)
\* variant: an item exactly as old as the window is stale
CacheValidStrict(item, t, e) == t - item.Timestamp < CacheExpirationSecsOf(e)

\* variant: a cached item never expires
CacheValidForever(item, t, e) == TRUE

\* lines 222-230: the cached item is still valid
CacheValid(item, t, e) == t - item.Timestamp <= CacheExpirationSecsOf(e)

\* variant: an address already in the cache keeps its item
CachePutOnce(c, a, item) == [k \in DOMAIN c \cup {a} |-> IF k \in DOMAIN c THEN c[k] ELSE item]

\* variant: a write leaves only its own address in the cache
CachePutAlone(c, a, item) == [k \in {a} |-> item]

CachePut(c, a, item) == [k \in DOMAIN c \cup {a} |-> IF k = a THEN item ELSE c[k]]

\* return: the call's locals die, its result and the observations stay
Returned(q, balance, err) ==
    [q EXCEPT !.pc = "done", !.ret = balance, !.err = err,
              !.answer = IF q.http THEN RespondTo(balance, err) ELSE NoAnswer,
              !.i = 0, !.startIdx = 0, !.attempt = 0, !.sentAt = 0, !.balance = "",
              !.fetchErr = "nil", !.lastErr = "nil", !.timeoutSecs = 0,
              !.cacheExpirationSecs = 0]

\* variant: no node is one more failed attempt, and the loop goes on
AfterSelectRetry(q, k, t) ==
    IF k = 0
    THEN IF q.i + 1 <= q.maxRetries
         THEN [q EXCEPT !.pc = "select", !.i = @ + 1]
         ELSE Returned(q, "", ErrExhausted(q.maxRetries, q.lastErr))
    ELSE [q EXCEPT !.pc = "fetch", !.node = k, !.sentAt = t, !.calls = @ + 1,
                   !.startIdx = 0, !.attempt = 0]

\* lines 234-244: what the caller does with NextNode's answer
AfterSelect(q, k, t) ==
    IF k = 0
    THEN Returned(q, "", ErrNoHealthy)
    ELSE [q EXCEPT !.pc = "fetch", !.node = k, !.sentAt = t, !.calls = @ + 1,
                   !.startIdx = 0, !.attempt = 0]

\* variant: a successful attempt goes through the cache write and the marking too
AfterFetchCaching(q, f) ==
    [q EXCEPT !.pc = "failed", !.balance = f.balance, !.fetchErr = f.err, !.sentAt = 0]

\* variant: an expired deadline ends the whole call
AfterFetchAbortOnDeadline(q, f) ==
    IF f.err = "nil"
    THEN Returned(q, f.balance, ErrNil)
    ELSE IF f.err = "deadline"
    THEN Returned(q, "", ErrExhausted(q.maxRetries, f.err))
    ELSE [q EXCEPT !.pc = "failed", !.balance = f.balance, !.fetchErr = f.err, !.sentAt = 0]

\* lines 244-248: what the caller does with fetchBalanceFromNode's answer
AfterFetch(q, f) ==
    IF f.err = "nil"
    THEN Returned(q, f.balance, ErrNil)
    ELSE [q EXCEPT !.pc = "failed", !.balance = f.balance, !.fetchErr = f.err, !.sentAt = 0]

\* variant: the first failure ends the call
AfterFailureGiveUp(q) ==
    Returned(q, "", ErrExhausted(q.maxRetries, q.fetchErr))

\* variant: the loop runs while i < maxRetries
AfterFailureOffByOne(q) ==
    LET q2 == [q EXCEPT !.lastErr = q.fetchErr, !.i = @ + 1, !.balance = "", !.fetchErr = "nil"]
    IN IF q2.i < q2.maxRetries
       THEN [q2 EXCEPT !.pc = "select"]
       ELSE Returned(q2, "", ErrExhausted(q2.maxRetries, q2.lastErr))

\* lines 257-265: record the error, next attempt or give up
AfterFailure(q) ==
    LET q2 == [q EXCEPT !.lastErr = q.fetchErr, !.i = @ + 1, !.balance = "", !.fetchErr = "nil"]
    IN IF q2.i <= q2.maxRetries
       THEN [q2 EXCEPT !.pc = "select"]
       ELSE Returned(q2, "", ErrExhausted(q2.maxRetries, q2.lastErr))

\* lines 199-230: from the fresh record q0 of a call for address a to the cached
\* answer or to the first attempt
Begun(q0, a) ==
    LET q == [q0 EXCEPT !.address = a,
                        !.timeoutSecs = TimeoutSecsOf(env),
                        !.maxRetries = MaxRetriesOf(env),
                        !.cacheExpirationSecs = CacheExpirationSecsOf(env),
                        !.healthy0 = AllHealthy(Nodes),
                        !.cursor0 = index]
    IN IF a \in DOMAIN Cache /\ CacheValid(Cache[a], now, env)
       THEN Returned(q, Cache[a].Balance, ErrNil)
       ELSE [q EXCEPT !.pc = "select"]

\* variant: a call served from the cache renews the entry's timestamp
GetBalanceStartTouching(r, a) ==
    /\ ~crashed
    /\ req[r].pc \in {"idle", "done"}
    /\ mu = 0
    /\ obs.pc # "scan"
    /\ CanSpend("calls", MaxCalls)
    /\ budget' = Spent("calls")
    /\ req' = [req EXCEPT ![r] = Begun(IdleReq, a)]
    /\ obs' = IdleObs
    /\ Cache' = IF req'[r].pc = "done"
                THEN CachePut(Cache, a, [Balance |-> Cache[a].Balance, Timestamp |-> now])
                ELSE Cache
    /\ UNCHANGED <<Nodes, index, lastNodeName, mu, now, env, upstream, probe,
                   selHist, started, cooldowns, crashed, dispatched>>

\* lines 199-230: configuration, cache lookup under the lock, expiry check
GetBalanceStart(r, a) ==
    /\ ~crashed
    /\ req[r].pc \in {"idle", "done"}
    /\ mu = 0
    /\ obs.pc # "scan"
    /\ CanSpend("calls", MaxCalls)
    /\ budget' = Spent("calls")
    /\ req' = [req EXCEPT ![r] = Begun(IdleReq, a)]
    /\ obs' = IdleObs
    /\ UNCHANGED <<Nodes, index, lastNodeName, Cache, mu, now, env, upstream, probe,
                   selHist, started, cooldowns, crashed, dispatched>>

\* line 234: one iteration of the NextNode call of attempt i; the first takes the
\* lock, the last releases it and hands the node to the caller
NextNodeStep(r) ==
    /\ ~crashed
    /\ \/ req[r].pc = "select" /\ mu = 0
       \/ req[r].pc = "scan" /\ mu = r
    /\ LET first == req[r].pc = "select"
           q == IF first
                THEN [req[r] EXCEPT !.startIdx = index, !.attempt = 0, !.inspected = 0,
                                    !.selections = @ + 1,
                                    !.someUp = AnyHealthy(Nodes),
                                    !.allDown = ~AnyHealthy(Nodes)]
                ELSE req[r]
           s == ScanIter(Nodes, index, q.startIdx, q.attempt)
           q2 == [q EXCEPT !.inspected = @ + s.seen, !.picked = s.node,
                           !.pickedUp = s.node # 0 /\ Nodes[s.node].Healthy]
       IN /\ index' = s.index
          /\ lastNodeName' = RecordName(lastNodeName, s)
          /\ dispatched' = IF s.out = "more" THEN dispatched
                           ELSE IF s.node # 0 THEN [node |-> s.node, thenNone |-> FALSE]
                           ELSE [dispatched EXCEPT !.thenNone = TRUE]
          /\ mu' = IF s.out = "more" THEN r ELSE 0
          /\ req' = [req EXCEPT ![r] =
                       IF s.out = "more"
                       THEN [q2 EXCEPT !.pc = "scan", !.attempt = @ + 1]
                       ELSE AfterSelect(q2, s.node, now)]
          /\ selHist' = IF s.out = "more" THEN selHist
                        ELSE HistAfterSelect(q.startIdx, s.node, q2.inspected)
    /\ UNCHANGED <<Nodes, Cache, now, env, upstream, probe, started, cooldowns, crashed,
                   budget, obs>>

\* line 244: the upstream call returns
FetchReturn(r) ==
    /\ ~crashed
    /\ req[r].pc = "fetch"
    /\ \E resp \in Responses(req[r].node, req[r].sentAt, req[r].timeoutSecs) :
          req' = [req EXCEPT ![r] =
                    [AfterFetch(req[r], fetchBalanceFromNode(resp)) EXCEPT !.lastResp = resp]]
    /\ UNCHANGED <<Nodes, index, lastNodeName, Cache, mu, now, env, upstream, probe,
                   selHist, started, cooldowns, crashed, budget, obs, dispatched>>

\* lines 249-254: the failed attempt's balance goes into the cache, under the lock
CacheFailedBalance(r) ==
    /\ ~crashed
    /\ req[r].pc = "failed"
    /\ mu = 0
    /\ Cache' = CachePut(Cache, req[r].address,
                         [Balance |-> req[r].balance, Timestamp |-> now])
    /\ req' = [req EXCEPT ![r].pc = "mark"]
    /\ UNCHANGED <<Nodes, index, lastNodeName, mu, now, env, upstream, probe,
                   selHist, started, cooldowns, crashed, budget, obs, dispatched>>

\* lines 257-265: lastErr, node.Healthy = false (no lock held), then the loop
MarkUnhealthy(r) ==
    /\ ~crashed
    /\ req[r].pc = "mark"
    /\ Nodes' = [Nodes EXCEPT ![req[r].node].Healthy = FALSE]
    /\ req' = Watch([req EXCEPT ![r] = AfterFailure(req[r])], Nodes')
    /\ obs' = WatchObs(obs, Nodes')
    /\ selHist' = HistAfterWrite(Nodes')
    /\ UNCHANGED <<index, lastNodeName, Cache, mu, now, env, upstream, probe,
                   started, cooldowns, crashed, budget, dispatched>>

\* APIHandler.ProxyHandler for the request path p: the guard answers 400 without
\* the manager, else the handler calls GetBalance and answers when it returns
ProxyHandler(r, p) ==
    /\ ~crashed
    /\ req[r].pc \in {"idle", "done"}
    /\ mu = 0
    /\ obs.pc # "scan"
    /\ CanSpend("calls", MaxCalls)
    /\ budget' = Spent("calls")
    /\ LET q0 == [IdleReq EXCEPT !.http = TRUE, !.path = p]
       IN req' = [req EXCEPT ![r] =
                    IF Rejected(p)
                    THEN [q0 EXCEPT !.pc = "done",
                                    !.answer = [status |-> StatusBadRequest,
                                                body |-> "Invalid or missing Ethereum address"]]
                    ELSE Begun(q0, p.address)]
    /\ obs' = IdleObs
    /\ UNCHANGED <<Nodes, index, lastNodeName, Cache, mu, now, env, upstream, probe,
                   selHist, started, cooldowns, crashed, dispatched>>

(***************************************************************************)
(* IsReady (lines 184-196) and GetNodeName (lines 162-166), asked by one   *)
(* more goroutine.  IsReady holds m.mu for its loop, one node per step.    *)
(***************************************************************************)
\* Requests reach the server one at a time: what runs beside a request is the
\* prober and the cooldown tasks.
NoRequest == obs.pc # "scan" /\ \A r \in DOMAIN req : req[r].pc \in {"idle", "done"}

\* A finished request's record is kept until the next request begins.
Forgotten(rq) == [r \in DOMAIN rq |-> IdleReq]

\* the observer's identity as holder of m.mu
ObsId == Len(req) + 1

\* variant: a pool with no node counts as ready
IsReadyIterEmptyReady(nodes, k) ==
    IF Len(nodes) = 0 THEN [out |-> "true", k |-> k]
    ELSE IF k >= Len(nodes) THEN [out |-> "false", k |-> k]
    ELSE IF nodes[k + 1].Healthy THEN [out |-> "true", k |-> k + 1]
    ELSE IF k + 1 >= Len(nodes) THEN [out |-> "false", k |-> k + 1]
    ELSE [out |-> "more", k |-> k + 1]

\* lines 188-195: one iteration of the loop over m.Nodes, from position k
IsReadyIter(nodes, k) ==
    IF k >= Len(nodes) THEN [out |-> "false", k |-> k]
    ELSE IF nodes[k + 1].Healthy THEN [out |-> "true", k |-> k + 1]
    ELSE IF k + 1 >= Len(nodes) THEN [out |-> "false", k |-> k + 1]
    ELSE [out |-> "more", k |-> k + 1]

IsReady ==
    /\ ~crashed
    /\ \/ obs.pc \in {"idle", "done"} /\ mu = 0 /\ NoRequest /\ CanSpend("calls", MaxCalls)
       \/ obs.pc = "scan" /\ mu = ObsId
    /\ LET first == obs.pc # "scan"
           o == IF first
                THEN [IdleObs EXCEPT !.op = "IsReady",
                                     !.someUp = AnyHealthy(Nodes),
                                     !.allDown = ~AnyHealthy(Nodes)]
                ELSE obs
           s == IsReadyIter(Nodes, o.k)
       IN /\ budget' = IF first THEN Spent("calls") ELSE budget
          /\ mu' = IF s.out = "more" THEN ObsId ELSE 0
          /\ obs' = IF s.out = "more"
                    THEN [o EXCEPT !.pc = "scan", !.k = s.k]
                    ELSE [o EXCEPT !.pc = "done", !.k = 0, !.ret = (s.out = "true")]
          /\ req' = IF first THEN Forgotten(req) ELSE req
    /\ UNCHANGED <<Nodes, index, lastNodeName, Cache, now, env, upstream, probe,
                   selHist, started, cooldowns, crashed, dispatched>>

\* lines 162-166: m.lastNodeName, read under the lock
GetNodeName ==
    /\ ~crashed
    /\ obs.pc \in {"idle", "done"}
    /\ mu = 0
    /\ NoRequest
    /\ CanSpend("calls", MaxCalls)
    /\ budget' = Spent("calls")
    /\ obs' = [IdleObs EXCEPT !.op = "GetNodeName", !.pc = "done",
                              !.name = lastNodeName,
                              !.expect = dispatched.node]
    /\ req' = Forgotten(req)
    /\ UNCHANGED <<Nodes, index, lastNodeName, Cache, mu, now, env, upstream, probe,
                   selHist, started, cooldowns, crashed, dispatched>>

(***************************************************************************)
(* Time.  The clock is explored at the instants CooldownDelay*j + f.       *)
(***************************************************************************)
Tick(d) ==
    /\ ~crashed
    /\ d = 1 => now % CooldownDelay < MaxFine
    /\ d = CooldownDelay => now \div CooldownDelay < MaxJumps
    /\ now' = now + d
    /\ UNCHANGED <<Nodes, index, lastNodeName, Cache, mu, env, upstream, req, probe,
                   selHist, started, cooldowns, crashed, budget, obs, dispatched>>

(***************************************************************************)
(* A single caller, health checks never started (src/cmd/api/main.go).     *)
(***************************************************************************)
InitSeq ==
    /\ \E n \in 0..MaxNodes :
          /\ NewClientManager(n)
          /\ upstream \in [1..n -> Behaviours]
    /\ started = FALSE
    /\ now = 0
    /\ env \in Envs({Unset}, {Unset, Num(0), Num(1)}, {Unset})
               \cup Envs({Num(1)}, {Unset, Num(0), Num(1)}, {Num(1)})
    /\ req = [r \in 1..1 |-> IdleReq]
    /\ budget = NoBudget

NextSeq ==
    \/ \E r \in DOMAIN req, a \in Addresses : GetBalanceStart(r, a)
    \/ \E r \in DOMAIN req : NextNodeStep(r)
    \/ \E r \in DOMAIN req : FetchReturn(r)
    \/ \E r \in DOMAIN req : CacheFailedBalance(r)
    \/ \E r \in DOMAIN req : MarkUnhealthy(r)
    \/ IsReady
    \/ GetNodeName
    \/ \E d \in {1, CooldownDelay} : Tick(d)

SpecSeq == InitSeq /\ [][NextSeq]_vars

(***************************************************************************)
(* The same caller under every kind of value of the three environment      *)
(* variables, with one node.                                               *)
(***************************************************************************)
RawValues == {Unset, Junk, Num(-1), Num(0), Num(2)}

InitEnv ==
    /\ NewClientManager(1)
    /\ upstream \in [1..1 -> {"ok", "bad"}]
    /\ started = FALSE
    /\ now = 0
    /\ env \in Envs(RawValues, RawValues, RawValues)
    /\ req = [r \in 1..1 |-> IdleReq]
    /\ budget = NoBudget

SpecEnv == InitEnv /\ [][NextSeq]_vars

(***************************************************************************)
(* Requests arrive through the HTTP handler (src/cmd/api/main.go).         *)
(***************************************************************************)
InitHttp ==
    /\ \E n \in 0..MaxNodes :
          /\ NewClientManager(n)
          /\ upstream \in [1..n -> {"ok", "bad"}]
    /\ started = FALSE
    /\ now = 0
    /\ env \in Envs({Unset}, {Unset, Num(0)}, {Unset})
    /\ req = [r \in 1..1 |-> IdleReq]
    /\ budget = NoBudget

NextHttp ==
    \/ \E r \in DOMAIN req, p \in Paths : ProxyHandler(r, p)
    \/ \E r \in DOMAIN req : NextNodeStep(r)
    \/ \E r \in DOMAIN req : FetchReturn(r)
    \/ \E r \in DOMAIN req : CacheFailedBalance(r)
    \/ \E r \in DOMAIN req : MarkUnhealthy(r)
    \/ \E d \in {1, CooldownDelay} : Tick(d)

SpecHttp == InitHttp /\ [][NextHttp]_vars

(***************************************************************************)
(* The health prober (lines 100-181).                                      *)
(***************************************************************************)
\* What httpClient.Do gives for web3_clientVersion: the probe reads only the
\* error and the status, and a slow server ends in the client's own timeout.
ProbeResponses(n) ==
    CASE upstream[n] = "ok" -> OkResponses(n)
      [] upstream[n] = "bad" -> BadResponses
      [] upstream[n] = "flaky" -> OkResponses(n) \cup BadResponses
      [] upstream[n] = "degraded" -> DegradedResponses(n)
      [] OTHER -> {Transport}

\* variant: a body that does not decode is a failed probe too
ProbeFailedOnBody(resp) == resp.kind # "http" \/ resp.status # StatusOK \/ resp.body # "result"

\* line 127
ProbeFailed(resp) == resp.kind # "http" \/ resp.status # StatusOK

\* variant: the cooldown starts one failure later
NeedsCooldownLate(errorCount) == errorCount > ErrorThreshold

\* line 130
NeedsCooldown(errorCount) == errorCount >= ErrorThreshold

\* lines 169-181: one probing goroutine per node from now on
StartHealthChecks == started = TRUE

\* lines 123-128 and 141-143: the probe's answer and the write of Healthy (no lock)
CheckNodeHealth(n) ==
    /\ ~crashed
    /\ started
    /\ probe[n].pc = "idle"
    /\ CanSpend("probes", MaxProbes)
    /\ budget' = Spent("probes")
    /\ \E resp \in ProbeResponses(n) :
          IF ProbeFailed(resp)
          THEN /\ Nodes' = [Nodes EXCEPT ![n].Healthy = FALSE]
               /\ probe' = [probe EXCEPT ![n] = [pc |-> "count", noResp |-> resp.kind # "http",
                                                   status |-> resp.status]]
          ELSE /\ Nodes' = [Nodes EXCEPT ![n].Healthy = TRUE]
               /\ probe' = [probe EXCEPT ![n] = [pc |-> "reset", noResp |-> FALSE,
                                                   status |-> resp.status]]
    /\ req' = Watch(req, Nodes')
    /\ obs' = WatchObs(obs, Nodes')
    /\ selHist' = HistAfterWrite(Nodes')
    /\ UNCHANGED <<index, lastNodeName, Cache, mu, now, env, upstream, started,
                   cooldowns, crashed, dispatched>>

\* lines 129-140: ErrorCount++, the cooldown goroutine, and the log entry that
\* reads resp.StatusCode, a nil dereference when the client gave no response
CheckNodeHealthCount(n) ==
    /\ ~crashed
    /\ probe[n].pc = "count"
    /\ Nodes' = [Nodes EXCEPT ![n].ErrorCount = @ + 1]
    /\ cooldowns' = IF NeedsCooldown(Nodes'[n].ErrorCount)
                    THEN [cooldowns EXCEPT ![n] = Append(@, now + CooldownDelay)]
                    ELSE cooldowns
    /\ crashed' = probe[n].noResp
    /\ probe' = [probe EXCEPT ![n] = IdleProbe]
    /\ UNCHANGED <<index, lastNodeName, Cache, mu, now, env, upstream, req,
                   selHist, started, budget, obs, dispatched>>

\* line 144
CheckNodeHealthReset(n) ==
    /\ ~crashed
    /\ probe[n].pc = "reset"
    /\ Nodes' = [Nodes EXCEPT ![n].ErrorCount = 0]
    /\ probe' = [probe EXCEPT ![n] = IdleProbe]
    /\ UNCHANGED <<index, lastNodeName, Cache, mu, now, env, upstream, req,
                   selHist, started, cooldowns, crashed, budget, obs, dispatched>>

(***************************************************************************)
(* cooldownNode (lines 154-159): a task is its wake-up time, Woken once it *)
(* has written Healthy.                                                    *)
(***************************************************************************)
Woken == -1

RemoveAt(seq, j) == [k \in 1..(Len(seq) - 1) |-> IF k < j THEN seq[k] ELSE seq[k + 1]]

\* lines 155-156
cooldownNodeWake(n, j) ==
    /\ ~crashed
    /\ cooldowns[n][j] # Woken
    /\ cooldowns[n][j] <= now
    /\ Nodes' = [Nodes EXCEPT ![n].Healthy = TRUE]
    /\ cooldowns' = [cooldowns EXCEPT ![n][j] = Woken]
    /\ req' = Watch(req, Nodes')
    /\ obs' = WatchObs(obs, Nodes')
    /\ selHist' = HistAfterWrite(Nodes')
    /\ UNCHANGED <<index, lastNodeName, Cache, mu, now, env, upstream, probe,
                   started, crashed, budget, dispatched>>

\* line 157
cooldownNodeReset(n, j) ==
    /\ ~crashed
    /\ cooldowns[n][j] = Woken
    /\ Nodes' = [Nodes EXCEPT ![n].ErrorCount = 0]
    /\ cooldowns' = [cooldowns EXCEPT ![n] = RemoveAt(@, j)]
    /\ UNCHANGED <<index, lastNodeName, Cache, mu, now, env, upstream, req, probe,
                   selHist, started, crashed, budget, obs, dispatched>>

(***************************************************************************)
(* Concurrent callers with the health checks running (the main of          *)
(* src/unnamed/part_002).                                                  *)
(***************************************************************************)
Init ==
    /\ \E n \in 1..MaxNodes :
          /\ NewClientManager(n)
          /\ upstream \in [1..n -> {"ok", "flaky"}]
    /\ StartHealthChecks
    /\ now = 0
    /\ env \in Envs({Num(1)}, {Num(1)}, {Num(1)})
    /\ req = [r \in 1..MaxCallers |-> IdleReq]
    /\ budget = NoBudget

Next ==
    \/ \E r \in DOMAIN req, a \in Addresses : GetBalanceStart(r, a)
    \/ \E r \in DOMAIN req : NextNodeStep(r)
    \/ \E r \in DOMAIN req : FetchReturn(r)
    \/ \E r \in DOMAIN req : CacheFailedBalance(r)
    \/ \E r \in DOMAIN req : MarkUnhealthy(r)
    \/ IsReady
    \/ GetNodeName
    \/ Tick(CooldownDelay)
    \/ \E n \in DOMAIN Nodes : CheckNodeHealth(n)
    \/ \E n \in DOMAIN Nodes : CheckNodeHealthCount(n)
    \/ \E n \in DOMAIN Nodes : CheckNodeHealthReset(n)
    \/ \E n \in DOMAIN Nodes : \E j \in DOMAIN cooldowns[n] : cooldownNodeWake(n, j)
    \/ \E n \in DOMAIN Nodes : \E j \in DOMAIN cooldowns[n] : cooldownNodeReset(n, j)

Spec == Init /\ [][Next]_vars

(***************************************************************************)
(* Properties.                                                             *)
(***************************************************************************)
Min(a, b) == IF a < b THEN a ELSE b

\* the call went past the cache: no entry for the address, or an expired one
Missed(q) == q.selections >= 1

Finished(q) == q.pc = "done"

NodesOf(kind) == {k \in DOMAIN Nodes : upstream[k] = kind}

\* C1: while every node is healthy and no Healthy flag changes, consecutive
\* NextNode calls hand out the node under the cursor and move the cursor on by
\* one (wrapping), so N consecutive calls return each of the N nodes exactly
\* once, in pool order from the starting cursor.
C1_RoundRobinFairness ==
    LET n == Len(Nodes)
    IN /\ selHist # <<>> => AllHealthy(Nodes)
       /\ \A k \in 1..Len(selHist) : selHist[k][2] = selHist[k][1] + 1
       /\ \A k \in 1..(Len(selHist) - 1) : selHist[k + 1][1] = (selHist[k][1] + 1) % n
       /\ Len(selHist) = n => {selHist[k][2] : k \in 1..n} = 1..n

\* N >= 2 consecutive selections that began with the cursor away from 0
C1_Witness ==
    /\ Len(Nodes) >= 2
    /\ Len(selHist) = Len(Nodes)
    /\ selHist[1][1] # 0

\* C2: if some node was healthy at every moment of a NextNode call, the call
\* returns a node (never none), and the node it returns had its Healthy flag set
\* when it was selected.
C2_HealthSkip ==
    \A r \in DOMAIN req :
        LET q == req[r]
        IN q.selections >= 1 /\ q.pc # "scan" =>
              /\ q.picked # 0 => q.pickedUp
              /\ q.someUp => q.picked # 0

\* C3: a NextNode call inspects at most N nodes, and when every node was
\* unhealthy during the whole call it returns none, after N inspections.
C3_AllUnhealthyReturnsNone ==
    \A r \in DOMAIN req :
        LET q == req[r]
            n == Len(Nodes)
        IN /\ q.inspected <= n
           /\ q.pc = "scan" => q.attempt < n
           /\ q.selections >= 1 /\ q.pc # "scan" /\ q.allDown =>
                 /\ q.picked = 0
                 /\ q.inspected = n
                 /\ Finished(q) /\ q.err = ErrNoHealthy

\* every node of a pool of two is down, the cursor is at 1, and the call ended
\* with no node after two inspections
C3_Witness ==
    \E r \in DOMAIN req :
        /\ Len(Nodes) = 2 /\ index = 1
        /\ req[r].allDown /\ Finished(req[r]) /\ req[r].inspected = 2
        /\ req[r].err = ErrNoHealthy

\* the pool of C4: one server that always fails, one that always succeeds, both
\* healthy when the call began, a cache miss, maxRetries >= 1
FailoverCase(q) ==
    /\ Len(Nodes) = 2
    /\ Cardinality(NodesOf("bad")) = 1 /\ Cardinality(NodesOf("ok")) = 1
    /\ Finished(q) /\ Missed(q) /\ q.healthy0 /\ q.maxRetries >= 1

\* C4 as claimed: the call returns the succeeding node's value with no error and
\* the failing node is unhealthy when it returns, wherever the cursor was.
C4_AsClaimed ==
    \A r \in DOMAIN req :
        FailoverCase(req[r]) =>
            \A b \in NodesOf("bad"), g \in NodesOf("ok") :
                /\ req[r].ret = BalanceOf(g) /\ req[r].err = ErrNil
                /\ ~Nodes[b].Healthy

\* C4, amended: the call returns the succeeding node's value with no error; the
\* failing node is unhealthy when it returns if the cursor was on it when the
\* call began, and still healthy (never contacted) if the cursor was on the
\* succeeding node.
C4_Failover ==
    \A r \in DOMAIN req :
        FailoverCase(req[r]) =>
            \A b \in NodesOf("bad"), g \in NodesOf("ok") :
                /\ req[r].ret = BalanceOf(g) /\ req[r].err = ErrNil
                /\ Nodes[b].Healthy <=> (NodeAt(req[r].cursor0) = g)
                /\ req[r].calls = (IF NodeAt(req[r].cursor0) = b THEN 2 ELSE 1)

\* the cursor was on the failing node, the second attempt succeeded
C4_Witness ==
    \E r \in DOMAIN req :
        /\ FailoverCase(req[r])
        /\ NodeAt(req[r].cursor0) \in NodesOf("bad")
        /\ req[r].calls = 2 /\ req[r].err = ErrNil
        /\ \A b \in NodesOf("bad") : ~Nodes[b].Healthy

\* the pool of C5: N >= 1 servers that always fail, all healthy when the call
\* began, a cache miss
ExhaustionCase(q) ==
    /\ Len(Nodes) >= 1
    /\ \A k \in DOMAIN Nodes : upstream[k] \in {"bad", "slow"}
    /\ Finished(q) /\ Missed(q) /\ q.healthy0

IsExhausted(e, r) == e.kind = ErrExhausted(r, "nil").kind /\ e.retries = r /\ e.last # "nil"

\* C5 as claimed: exactly R+1 upstream attempts, then the retries-exhausted
\* error naming R.
C5_AsClaimed ==
    \A r \in DOMAIN req :
        ExhaustionCase(req[r]) =>
            /\ req[r].calls = req[r].maxRetries + 1
            /\ IsExhausted(req[r].err, req[r].maxRetries)

\* C5, amended: exactly min(R+1, N) upstream attempts; the retries-exhausted
\* error naming R and carrying the last error when R+1 <= N, and the "no
\* healthy nodes" error when R+1 > N (every node was marked unhealthy first).
C5_Exhaustion ==
    \A r \in DOMAIN req :
        ExhaustionCase(req[r]) =>
            LET R == req[r].maxRetries
                n == Len(Nodes)
            IN /\ req[r].calls = Min(R + 1, n)
               /\ R + 1 <= n => IsExhausted(req[r].err, R)
               /\ R + 1 > n => req[r].err = ErrNoHealthy

\* two failing nodes and one retry: two attempts, then retries exhausted
C5_Witness ==
    \E r \in DOMAIN req :
        /\ ExhaustionCase(req[r])
        /\ Len(Nodes) = 2 /\ req[r].maxRetries = 1
        /\ req[r].calls = 2 /\ IsExhausted(req[r].err, 1)

\* a step that begins GetBalance(a) for caller r
Begins(r, a) ==
    /\ req[r].pc \in {"idle", "done"}
    /\ req'[r].pc # "idle"
    /\ req'[r].address = a
    /\ req'[r] # req[r]

\* C6: a GetBalance(K) that begins while the entry for K is no older than the
\* expiration window returns the entry's value with no error and without
\* selecting a node or calling upstream.
C6_CacheHitWithinWindow ==
    [][\A r \in DOMAIN req, a \in Addresses :
          (/\ Begins(r, a)
           /\ a \in DOMAIN Cache
           /\ now - Cache[a].Timestamp <= CacheExpirationSecsOf(env))
          => /\ Finished(req'[r])
             /\ req'[r].ret = Cache[a].Balance /\ req'[r].err = ErrNil
             /\ req'[r].calls = 0 /\ req'[r].selections = 0]_vars

\* a call served from an entry exactly as old as the window
C6_Witness ==
    \E r \in DOMAIN req :
        /\ Finished(req[r]) /\ req[r].selections = 0 /\ req[r].err = ErrNil
        /\ req[r].address \in DOMAIN Cache
        /\ req[r].ret = Cache[req[r].address].Balance
        /\ now - Cache[req[r].address].Timestamp = CacheExpirationSecsOf(env)

\* C7: a GetBalance(K) that begins when the entry for K is older than the window
\* returns nothing from the cache: it goes on to NextNode, and the selection ends
\* either with a node and an upstream call or with the no-healthy-nodes error.
C7_CacheMissAfterExpiry ==
    [][\A r \in DOMAIN req, a \in Addresses :
          /\ (/\ Begins(r, a)
              /\ a \in DOMAIN Cache
              /\ now - Cache[a].Timestamp > CacheExpirationSecsOf(env))
             => req'[r].pc = "select" /\ req'[r].calls = 0
          /\ (req[r].pc \in {"select", "scan"} /\ req'[r].pc \notin {"select", "scan"})
             => \/ req'[r].pc = "fetch" /\ req'[r].calls = req[r].calls + 1
                \/ Finished(req'[r]) /\ req'[r].err = ErrNoHealthy]_vars

\* an expired entry is in the cache while the call's upstream request is in flight
C7_Witness ==
    \E r \in DOMAIN req :
        /\ req[r].pc = "fetch" /\ req[r].i = 0
        /\ req[r].address \in DOMAIN Cache
        /\ now - Cache[req[r].address].Timestamp > CacheExpirationSecsOf(env)

\* C8: when NextNode gives no node, in the first attempt or a later one,
\* GetBalance has returned the no-healthy-nodes error: every earlier selection of
\* the call was followed by an upstream call, this one by none, and the error is
\* not the retries-exhausted one.
C8_NoHealthyIsTerminal ==
    \A r \in DOMAIN req :
        LET q == req[r]
        IN /\ q.selections >= 1 /\ q.pc # "scan" /\ q.picked = 0 =>
                 /\ Finished(q) /\ q.err = ErrNoHealthy /\ q.ret = ""
                 /\ q.calls = q.selections - 1
           /\ ErrNoHealthy.kind # ErrExhausted(q.maxRetries, q.lastErr).kind
           /\ Finished(q) /\ q.err.kind = ErrNoHealthy.kind => q.picked = 0

\* the second selection of a call found no healthy node
C8_Witness ==
    \E r \in DOMAIN req :
        /\ Finished(req[r]) /\ req[r].err = ErrNoHealthy
        /\ req[r].selections = 2 /\ req[r].calls = 1

\* the pool of C9: one healthy node whose server answers, a cache miss
PassThroughCase(q) ==
    /\ Len(Nodes) = 1 /\ upstream[1] = "ok"
    /\ Finished(q) /\ Missed(q) /\ q.healthy0

\* C9: the call returns the JSON-RPC result string of the node as it is, with no
\* error, after exactly one upstream call.
C9_ValuePassThrough ==
    \A r \in DOMAIN req :
        PassThroughCase(req[r]) =>
            /\ \A resp \in OkResponses(1) : req[r].ret = resp.result
            /\ req[r].err = ErrNil
            /\ req[r].calls = 1

C9_Witness ==
    \E r \in DOMAIN req : PassThroughCase(req[r]) /\ req[r].ret = "0x10"

\* the pool of C10: [NodeTimeout, NodeOK], the cursor on NodeTimeout, both
\* healthy, a cache miss, maxRetries >= 1
TimeoutCase(q) ==
    /\ Len(Nodes) = 2 /\ upstream[1] = "slow" /\ upstream[2] = "ok"
    /\ Finished(q) /\ Missed(q) /\ q.healthy0 /\ q.cursor0 = 0 /\ q.maxRetries >= 1

\* C10: the deadline ends the first attempt only: NodeTimeout is unhealthy, the
\* second attempt went to NodeOK, and the call returns NodeOK's value with no
\* error after two upstream calls.
C10_TimeoutFailover ==
    \A r \in DOMAIN req :
        TimeoutCase(req[r]) =>
            /\ ~Nodes[1].Healthy
            /\ req[r].picked = 2 /\ req[r].calls = 2
            /\ req[r].ret = BalanceOf(2) /\ req[r].err = ErrNil

C10_Witness ==
    \E r \in DOMAIN req : TimeoutCase(req[r]) /\ req[r].ret = "0x1" /\ req[r].calls = 2

\* C11: IsReady returns true if some node was healthy during the call and false
\* if every node was unhealthy during the call.
C11_Readiness ==
    obs.pc = "done" /\ obs.op = "IsReady" =>
        /\ obs.someUp => obs.ret
        /\ obs.allDown => ~obs.ret

Configured(q) == q.pc \notin {"idle", "done"}

\* the value the claim gives a setting: the external value when it is a
\* positive integer, the default otherwise
Claimed(raw, default) == IF raw.kind = "num" /\ raw.val > 0 THEN raw.val ELSE default

\* C13 as claimed: each of the three settings is the default whenever the
\* external value is absent, unparsable or <= 0, and the external value otherwise.
C13_AsClaimed ==
    \A r \in DOMAIN req :
        Configured(req[r]) =>
            /\ req[r].timeoutSecs = Claimed(env.NODE_REQUEST_TIMEOUT_SECONDS, 5)
            /\ req[r].maxRetries = Claimed(env.MAX_RETRIES, 3)
            /\ req[r].cacheExpirationSecs = Claimed(env.CACHE_EXPIRATION_SECONDS, 60)

\* C13, amended: the timeout and the cache expiration are as claimed; the retry
\* count is the default 3 when the external value is absent, unparsable or
\* negative, and the external value otherwise, 0 included (a single attempt).
C13_ConfigurationDefaults ==
    \A r \in DOMAIN req :
        Configured(req[r]) =>
            /\ req[r].timeoutSecs = Claimed(env.NODE_REQUEST_TIMEOUT_SECONDS, 5)
            /\ req[r].maxRetries =
                  (IF env.MAX_RETRIES.kind = "num" /\ env.MAX_RETRIES.val >= 0
                   THEN env.MAX_RETRIES.val ELSE 3)
            /\ req[r].cacheExpirationSecs = Claimed(env.CACHE_EXPIRATION_SECONDS, 60)

\* MAX_RETRIES=0 with a failing node: the call ended after its only attempt
\* with the retries-exhausted error naming 0
C13_Witness ==
    \E r \in DOMAIN req :
        /\ env.MAX_RETRIES = Num(0)
        /\ env.NODE_REQUEST_TIMEOUT_SECONDS = Junk
        /\ env.CACHE_EXPIRATION_SECONDS = Num(-1)
        /\ Finished(req[r]) /\ req[r].calls = 1 /\ IsExhausted(req[r].err, 0)

\* C14: a request whose address is empty or fails the format check is answered
\* 400 and GetBalance is not called (no cache look-up result, no selection, no
\* upstream call); a request with a valid address calls GetBalance for that
\* address once, and is answered 200 with the balance when GetBalance returns
\* no error and 500 when it returns an error other than the invalid-address one.
C14_HandlerGuard ==
    \A r \in DOMAIN req :
        LET q == req[r]
            bad == q.path.address = "" \/ q.path.len # 42 \/ ~q.path.hex
        IN q.http =>
            /\ bad => /\ Finished(q) /\ q.answer.status = 400
                      /\ q.address = NoAddr /\ q.selections = 0 /\ q.calls = 0
            /\ ~bad => /\ q.address = q.path.address
                       /\ ~Finished(q) => q.answer = NoAnswer
                       /\ Finished(q) /\ q.err = ErrNil =>
                             q.answer.status = 200 /\ q.answer.body = q.ret
                       /\ Finished(q) /\ q.err # ErrNil /\ q.err # ErrInvalidAddress =>
                             q.answer.status = 500

\* one request of 42 characters without the prefix was answered 400
C14_Witness ==
    \E r \in DOMAIN req :
        /\ req[r].http /\ Finished(req[r])
        /\ req[r].path.len = 42 /\ ~req[r].path.hex /\ req[r].answer.status = 400

\* a valid request was answered 500 after its GetBalance failed
C14_WitnessError ==
    \E r \in DOMAIN req :
        /\ req[r].http /\ Finished(req[r])
        /\ req[r].path.address = "0xA" /\ req[r].calls >= 1 /\ req[r].answer.status = 500

\* C15: no write of a node's Healthy flag or ErrorCount and no write of the cache
\* happens while another goroutine is inside a critical section of m.mu.
C15_LockDiscipline ==
    [][mu # 0 => Nodes' = Nodes /\ Cache' = Cache]_vars

\* what the HTTP client gave was a failure of the attempt
FailedResponse(resp) == resp.kind # "http" \/ resp.status # 200 \/ resp.body # "result"

\* caller r leaves the place pc of its GetBalance call in this step
Leaves(r, pc) == req[r].pc = pc /\ req'[r].pc # pc

\* C16: a failed upstream call is followed by the cache write of the returned
\* (empty) value under the address with the current time, then by the marking of
\* the node and the recording of the error, then by the next attempt if one
\* remains and by the retries-exhausted error otherwise.
C16_FailureBranch ==
    [][\A r \in DOMAIN req :
          LET q == req[r]
              q2 == req'[r]
          IN /\ Leaves(r, "fetch") /\ FailedResponse(q2.lastResp) =>
                   q2.pc = "failed" /\ q2.balance = "" /\ q2.fetchErr # "nil"
             /\ Leaves(r, "failed") =>
                   /\ q2.pc = "mark"
                   /\ DOMAIN Cache' = DOMAIN Cache \cup {q.address}
                   /\ Cache'[q.address] = [Balance |-> "", Timestamp |-> now]
                   /\ \A a \in DOMAIN Cache \ {q.address} : Cache'[a] = Cache[a]
                   /\ Nodes' = Nodes
             /\ Leaves(r, "mark") =>
                   /\ Nodes' = [Nodes EXCEPT ![q.node].Healthy = FALSE]
                   /\ Cache' = Cache
                   /\ q.i < q.maxRetries =>
                         q2.pc = "select" /\ q2.i = q.i + 1 /\ q2.lastErr = q.fetchErr
                   /\ q.i >= q.maxRetries =>
                         /\ Finished(q2) /\ IsExhausted(q2.err, q.maxRetries)
                         /\ q2.err.last = q.fetchErr]_vars

\* after a failed first attempt made at a later time than an older entry: the
\* entry was replaced, the node is marked, the second attempt is about to begin
C16_Witness ==
    \E r \in DOMAIN req :
        /\ req[r].pc = "select" /\ req[r].i = 1 /\ req[r].lastErr # "nil"
        /\ ~Nodes[req[r].node].Healthy
        /\ req[r].address \in DOMAIN Cache
        /\ Cache[req[r].address] = [Balance |-> "", Timestamp |-> now]
        /\ now > 0

\* C17: a successful upstream call ends GetBalance in the same step with the
\* node's value and no error; the cache, and every node's Healthy flag and
\* ErrorCount, are as before.
C17_SuccessBranch ==
    [][\A r \in DOMAIN req :
          Leaves(r, "fetch") /\ ~FailedResponse(req'[r].lastResp) =>
              /\ Finished(req'[r])
              /\ req'[r].ret = req'[r].lastResp.result /\ req'[r].err = ErrNil
              /\ Cache' = Cache
              /\ Nodes' = Nodes]_vars

\* a first call succeeded at once: nothing is cached and every node is healthy
C17_Witness ==
    \E r \in DOMAIN req :
        /\ Finished(req[r]) /\ req[r].err = ErrNil /\ req[r].calls = 1
        /\ req[r].ret = "0x10"
        /\ Cache = EmptyCache /\ AllHealthy(Nodes)

\* C18: an attempt answered with a JSON-RPC error object goes through the
\* failure branch like any other failure: the node is marked unhealthy and the
\* attempt is counted (the next attempt has i + 1, or the retries are exhausted).
C18_RpcErrorCounts ==
    [][\A r \in DOMAIN req :
          LET q == req[r]
              q2 == req'[r]
          IN /\ Leaves(r, "fetch") /\ q2.lastResp.body = "rpcerror" =>
                   q2.pc = "failed" /\ q2.fetchErr # "nil"
             /\ Leaves(r, "mark") /\ q.lastResp.body = "rpcerror" =>
                   /\ ~Nodes'[q.node].Healthy
                   /\ \/ q2.pc = "select" /\ q2.i = q.i + 1 /\ q.i < q.maxRetries
                      \/ Finished(q2) /\ IsExhausted(q2.err, q.maxRetries)
                         /\ q.i = q.maxRetries]_vars

\* a call ended with the retries exhausted on a JSON-RPC error, its node marked
C18_Witness ==
    \E r \in DOMAIN req :
        /\ Finished(req[r]) /\ req[r].lastResp.body = "rpcerror"
        /\ IsExhausted(req[r].err, req[r].maxRetries)
        /\ ~Nodes[req[r].node].Healthy

\* the probe goroutine of node n leaves the place pc in this step
ProbeLeaves(n, pc) == probe[n].pc = pc /\ probe'[n].pc # pc

\* the probe of node n got no response or a status other than 200
ProbeGotFailure(p) == p.noResp \/ p.status # 200

\* C19: a probe that got a transport error or a non-OK status writes Healthy =
\* false, then adds one to ErrorCount, and starts a cooldown task for the node
\* (due one minute later) when the new ErrorCount is 3; below 3 it starts none.
C19_ProbeFailure ==
    [][\A n \in DOMAIN Nodes :
          /\ ProbeLeaves(n, "idle") /\ ProbeGotFailure(probe'[n]) =>
                /\ probe'[n].pc = "count"
                /\ Nodes' = [Nodes EXCEPT ![n].Healthy = FALSE]
          /\ ProbeLeaves(n, "count") =>
                /\ Nodes' = [Nodes EXCEPT ![n].ErrorCount = @ + 1]
                /\ Nodes'[n].ErrorCount = 3 =>
                      cooldowns' = [cooldowns EXCEPT ![n] = Append(@, now + 60)]
                /\ Nodes'[n].ErrorCount < 3 => cooldowns' = cooldowns]_vars

\* the third failed probe of a node (a non-OK status each time) has started the
\* node's first cooldown task
C19_Witness ==
    \E n \in DOMAIN Nodes :
        /\ ~crashed /\ probe[n].pc = "idle"
        /\ ~Nodes[n].Healthy /\ Nodes[n].ErrorCount = 3
        /\ cooldowns[n] = <<now + 60>>

\* C20: a probe that got status 200 writes Healthy = true, then ErrorCount = 0,
\* whatever the two fields held, also for a node a failed balance query marked.
C20_ProbeSuccess ==
    [][\A n \in DOMAIN Nodes :
          /\ ProbeLeaves(n, "idle") /\ ~ProbeGotFailure(probe'[n]) =>
                /\ probe'[n].pc = "reset"
                /\ Nodes' = [Nodes EXCEPT ![n].Healthy = TRUE]
          /\ ProbeLeaves(n, "reset") =>
                Nodes' = [Nodes EXCEPT ![n].ErrorCount = 0]]_vars

\* the only probe so far succeeded on the node a failed attempt of the running
\* call had marked: the node is healthy again
C20_Witness ==
    \E r \in DOMAIN req :
        /\ req[r].pc = "select" /\ req[r].i = 1
        /\ budget.probes = 1
        /\ probe[req[r].node].pc = "reset"
        /\ Nodes[req[r].node].Healthy

\* the step in which a cooldown task of node n comes back from its sleep
CooldownWakes(n) ==
    /\ Len(cooldowns'[n]) = Len(cooldowns[n])
    /\ \E j \in DOMAIN cooldowns[n] : cooldowns[n][j] # Woken /\ cooldowns'[n][j] = Woken

\* the step in which a cooldown task of node n ends
CooldownEnds(n) == Len(cooldowns'[n]) < Len(cooldowns[n])

\* the cooldown writes what it writes whatever the node looks like, only once
\* its delay is over, and sends nothing to the node
C21_Unconditional ==
    [][\A n \in DOMAIN Nodes :
          /\ CooldownWakes(n) =>
                /\ \E j \in DOMAIN cooldowns[n] :
                      cooldowns[n][j] # Woken /\ cooldowns[n][j] <= now
                /\ Nodes'[n].Healthy
                /\ probe' = probe
          /\ CooldownEnds(n) => Nodes'[n].ErrorCount = 0 /\ probe' = probe]_vars

\* a cooldown task that has not finished belongs to a running process
C21_TaskAlive == \A n \in DOMAIN Nodes : cooldowns[n] # <<>> => ~crashed

\* C21: once a cooldown task is scheduled for a node, after the delay it sets
\* the node healthy and its ErrorCount to 0 unconditionally and without a probe,
\* whatever probes or failed queries touched the node in between: the task is
\* never lost, and its writes do not depend on the node's state.
C21_OptimisticCooldown == []C21_TaskAlive /\ C21_Unconditional

\* C22: once the health checks are started, a node's probe task outlives every
\* probe, whatever its outcome (status 200, another status, or no response at
\* all): when CheckNodeHealth returns, the process is running and the task waits
\* for its next tick.
C22_ProberLiveness ==
    [][\A n \in DOMAIN Nodes :
          ProbeLeaves(n, "count") \/ ProbeLeaves(n, "reset") =>
              ~crashed' /\ probe'[n] = IdleProbe]_vars

(***************************************************************************)
(* The cache under several addresses: one caller at a time asks for either *)
(* of two addresses from a pool of three nodes, no health checks.          *)
(***************************************************************************)
CacheNodes == 3

CacheAddresses == {"0xA", "0xB"}

InitCache ==
    /\ NewClientManager(CacheNodes)
    /\ upstream \in [1..CacheNodes -> {"ok", "bad", "flaky"}]
    /\ started = FALSE
    /\ now = 0
    /\ env \in Envs({Unset}, {Num(0), Num(1)}, {Unset})
    /\ req = [r \in 1..1 |-> IdleReq]
    /\ budget = NoBudget

NextCache ==
    \/ \E r \in DOMAIN req, a \in CacheAddresses : GetBalanceStart(r, a)
    \/ \E r \in DOMAIN req : NextNodeStep(r)
    \/ \E r \in DOMAIN req : FetchReturn(r)
    \/ \E r \in DOMAIN req : CacheFailedBalance(r)
    \/ \E r \in DOMAIN req : MarkUnhealthy(r)
    \/ \E d \in {1, CooldownDelay} : Tick(d)

SpecCache == InitCache /\ [][NextCache]_vars

\* C23: no step removes an address from the cache; the cache changes only in
\* the write after a failed attempt, which sets the balance and the timestamp of
\* the call's own address and leaves every other entry as it was; a call that
\* finds an expired entry changes nothing by finding it.
C23_LazyExpiry ==
    [][/\ DOMAIN Cache \subseteq DOMAIN Cache'
       /\ \A r \in DOMAIN req :
             Leaves(r, "failed") =>
                 /\ DOMAIN Cache' = DOMAIN Cache \cup {req[r].address}
                 /\ Cache'[req[r].address] =
                        [Balance |-> req[r].balance, Timestamp |-> now]
                 /\ \A k \in DOMAIN Cache \ {req[r].address} : Cache'[k] = Cache[k]
       /\ (\A r \in DOMAIN req : ~Leaves(r, "failed")) => Cache' = Cache]_vars

\* the second failed attempt of a call has just written its address again, at
\* a later time than the entry of the other address, which is still there
C23_Witness ==
    \E r \in DOMAIN req :
        /\ req[r].pc = "mark" /\ req[r].i = 1 /\ req[r].address = "0xA"
        /\ DOMAIN Cache = CacheAddresses
        /\ Cache["0xA"].Timestamp = now
        /\ Cache["0xB"].Timestamp < now

\* a call went past the expired entry of its address, which is still cached
C23_WitnessExpired ==
    \E r \in DOMAIN req :
        /\ req[r].pc = "select" /\ req[r].i = 0
        /\ req[r].address \in DOMAIN Cache
        /\ ~CacheValid(Cache[req[r].address], now, env)

\* the balances the servers of the pool give in a successful answer
GenuineBalances ==
    {fetchBalanceFromNode(resp).balance : resp \in UNION {OkResponses(k) : k \in DOMAIN Nodes}}

\* C24: a GetBalance call that returns no error returns a balance that a node
\* gave in a successful answer for the address, in this call or in an earlier
\* one, never the value kept from a failed attempt.
C24_GenuineValues ==
    \A r \in DOMAIN req :
        Finished(req[r]) /\ req[r].err = ErrNil => req[r].ret \in GenuineBalances

\* the cooldown tasks of node n that are still asleep
Sleeping(n) == {j \in DOMAIN cooldowns[n] : cooldowns[n][j] # Woken}

\* C25: a node has at most one cooldown task that has not fired yet: a failed
\* probe of a node whose cooldown is pending starts no second one.
C25_OneCooldownPerNode == \A n \in DOMAIN Nodes : Cardinality(Sleeping(n)) <= 1

\* C26: in every reachable state a node whose Healthy flag is true has
\* ErrorCount 0, whatever the interleaving of attempts, probes and cooldowns.
C26_HealthyMeansNoErrors ==
    \A n \in DOMAIN Nodes : Nodes[n].Healthy => Nodes[n].ErrorCount = 0

\* the same with no probe and no cooldown task between its two writes
C26_AtRest ==
    (\A n \in DOMAIN Nodes : probe[n].pc = "idle" /\ \A j \in DOMAIN cooldowns[n] : cooldowns[n][j] # Woken)
        => C26_HealthyMeansNoErrors

(***************************************************************************)
(* Progress.  One caller and the health checks, every call and probe       *)
(* followed.  The servers are in order, degraded (every probe answered     *)
(* with status 200, a balance query at times without a result) or slow     *)
(* (no answer before the client gives up).  Each goroutine that can take   *)
(* its next step does so in the end, and so does each probe ticker; when   *)
(* a caller comes is up to the caller.                                     *)
(***************************************************************************)
InitLive ==
    /\ \E n \in 1..MaxNodes :
          /\ NewClientManager(n)
          /\ upstream \in [1..n -> {"ok", "degraded", "slow"}]
    /\ StartHealthChecks
    /\ now = 0
    /\ env \in Envs({Unset}, {Num(0)}, {Unset})
    /\ req = [r \in 1..1 |-> IdleReq]
    /\ budget = Unlimited

NextLive ==
    \/ \E r \in DOMAIN req, a \in Addresses : GetBalanceStart(r, a)
    \/ \E r \in DOMAIN req : NextNodeStep(r)
    \/ \E r \in DOMAIN req : FetchReturn(r)
    \/ \E r \in DOMAIN req : CacheFailedBalance(r)
    \/ \E r \in DOMAIN req : MarkUnhealthy(r)
    \/ \E d \in {1, CooldownDelay} : Tick(d)
    \/ \E n \in DOMAIN Nodes : CheckNodeHealth(n)
    \/ \E n \in DOMAIN Nodes : CheckNodeHealthCount(n)
    \/ \E n \in DOMAIN Nodes : CheckNodeHealthReset(n)

Fairness ==
    /\ \A r \in 1..1 :
          /\ WF_vars(NextNodeStep(r))
          /\ WF_vars(FetchReturn(r))
          /\ WF_vars(CacheFailedBalance(r))
          /\ WF_vars(MarkUnhealthy(r))
    /\ \A n \in 1..MaxNodes :
          /\ WF_vars(n \in DOMAIN Nodes /\ CheckNodeHealth(n))
          /\ WF_vars(n \in DOMAIN Nodes /\ CheckNodeHealthCount(n))
          /\ WF_vars(n \in DOMAIN Nodes /\ CheckNodeHealthReset(n))

SpecLive == InitLive /\ [][NextLive]_vars /\ Fairness

\* node n answers every probe with status 200 and is marked unhealthy, which
\* only a failed balance query can have done
MarkedByQuery(n) ==
    n \in DOMAIN Nodes /\ upstream[n] \in {"ok", "degraded"} /\ ~Nodes[n].Healthy

HealthyAgain(n) == n \in DOMAIN Nodes /\ Nodes[n].Healthy

\* NextNode has handed node n to a call
Selected(n) == \E r \in DOMAIN req : req[r].pc = "fetch" /\ req[r].node = n

\* calls that go past the cache keep coming
CallsKeepComing == []<>(\E r \in DOMAIN req : req[r].pc = "select")

\* C27: with the health checks running, a node that answers every probe with
\* status 200 and was marked unhealthy by a failed balance query is healthy
\* again at some later time, and, calls going on, NextNode returns it again.
C27_Recovery ==
    \A n \in 1..MaxNodes :
        /\ MarkedByQuery(n) ~> HealthyAgain(n)
        /\ CallsKeepComing => (MarkedByQuery(n) ~> Selected(n))

\* the same for the runs in which the process stays up
C27_WhileRunning == ([]~crashed) => C27_Recovery

\* the call of caller r returns in this step
Returns(r) == ~Finished(req[r]) /\ Finished(req'[r])

\* an IsReady call returns in this step
IsReadyReturns == obs' # obs /\ obs'.pc = "done" /\ obs'.op = "IsReady"

\* C28: when the health checks were never started, no step turns a Healthy
\* flag from false to true, changes an ErrorCount or starts a cooldown; so from
\* the moment every node is unhealthy, every IsReady returns false and every
\* GetBalance that goes past the cache returns the no-healthy-nodes error.
C28_NoRecoveryWithoutProber ==
    [][/\ \A n \in DOMAIN Nodes :
             /\ ~Nodes[n].Healthy => ~Nodes'[n].Healthy
             /\ Nodes'[n].ErrorCount = Nodes[n].ErrorCount
       /\ cooldowns' = cooldowns /\ \A n \in DOMAIN Nodes : cooldowns[n] = <<>>
       /\ ~AnyHealthy(Nodes) =>
             /\ ~AnyHealthy(Nodes')
             /\ IsReadyReturns => ~obs'.ret
             /\ \A r \in DOMAIN req :
                   Returns(r) /\ Missed(req'[r]) =>
                       req'[r].err = ErrNoHealthy /\ req'[r].ret = ""]_vars

\* both nodes of the pool were marked by failed attempts, and a later call, made
\* after the cache entry of its address had expired, got the no-healthy-nodes
\* error without an upstream call
C28_Witness ==
    \E r \in DOMAIN req :
        /\ Len(Nodes) = 2 /\ ~AnyHealthy(Nodes)
        /\ Finished(req[r]) /\ req[r].err = ErrNoHealthy
        /\ req[r].selections = 1 /\ req[r].calls = 0
        /\ req[r].address \in DOMAIN Cache

\* IsReady answered false for a pool whose nodes were all marked
C28_WitnessNotReady ==
    /\ Len(Nodes) = 2 /\ ~AnyHealthy(Nodes)
    /\ obs.pc = "done" /\ obs.op = "IsReady" /\ ~obs.ret

\* the call that caller r begins in this step is served from the cache
ServedFromCache(r) ==
    /\ req[r].pc \in {"idle", "done"}
    /\ req'[r] # req[r]
    /\ Finished(req'[r]) /\ req'[r].selections = 0 /\ req'[r].err = ErrNil

\* C29: a GetBalance call served from the cache leaves the cursor, the
\* last-dispatched name, every node's Healthy flag and ErrorCount, and the
\* cache with the timestamps of its entries as they were, and calls no node.
C29_CacheHitFrame ==
    [][\A r \in DOMAIN req :
          ServedFromCache(r) =>
              /\ index' = index
              /\ lastNodeName' = lastNodeName
              /\ Nodes' = Nodes
              /\ Cache' = Cache
              /\ req'[r].calls = 0]_vars

\* a call was served from an entry written earlier, after a selection had moved
\* the cursor and a failed attempt had marked a node
C29_Witness ==
    \E r \in DOMAIN req :
        /\ Finished(req[r]) /\ req[r].selections = 0 /\ req[r].err = ErrNil
        /\ req[r].address \in DOMAIN Cache
        /\ Cache[req[r].address].Timestamp < now
        /\ index # 0 /\ lastNodeName # 0 /\ ~AllHealthy(Nodes)

\* C30: in a manager built with no node, NextNode returns none at once (no
\* node inspected, the cursor left at 0, the process running), IsReady returns
\* false, and every GetBalance, each a cache miss, returns the no-healthy-nodes
\* error after one selection, with no upstream call and nothing cached.
C30_EmptyPool ==
    Len(Nodes) = 0 =>
        /\ ~crashed /\ mu = 0
        /\ index = 0 /\ lastNodeName = 0
        /\ Cache = EmptyCache
        /\ obs.pc = "done" /\ obs.op = "IsReady" => ~obs.ret
        /\ \A r \in DOMAIN req :
              /\ req[r].pc \in {"idle", "select", "done"}
              /\ req[r].calls = 0 /\ req[r].inspected = 0 /\ req[r].picked = 0
              /\ Finished(req[r]) =>
                    /\ req[r].err = ErrNoHealthy /\ req[r].ret = ""
                    /\ req[r].selections = 1

\* a GetBalance on the empty pool ended with the no-healthy-nodes error
C30_Witness ==
    \E r \in DOMAIN req :
        /\ Len(Nodes) = 0
        /\ Finished(req[r]) /\ req[r].err = ErrNoHealthy /\ req[r].selections = 1

\* IsReady answered false on the empty pool
C30_WitnessNotReady ==
    Len(Nodes) = 0 /\ obs.pc = "done" /\ obs.op = "IsReady" /\ ~obs.ret

\* the NextNode call of caller r returns in this step
NextNodeReturns(r) ==
    req[r].pc \in {"select", "scan"} /\ req'[r].pc \notin {"select", "scan"}

\* the cursor as the running NextNode call of caller r found it
CursorAtCall(r) == IF req[r].pc = "select" THEN index ELSE req[r].startIdx

\* C31: in a pool of N >= 1 nodes the cursor is in 0..N-1 in every state; when
\* NextNode returns the node at position p (the model's node p + 1) the cursor
\* is (p + 1) mod N, and when it returns none the cursor is where the call
\* found it.
C31_CursorInvariant ==
    /\ [](Len(Nodes) >= 1 => index \in 0..(Len(Nodes) - 1))
    /\ [][\A r \in DOMAIN req :
             NextNodeReturns(r) /\ Len(Nodes) >= 1 =>
                 /\ req'[r].picked # 0 =>
                       index' = ((req'[r].picked - 1) + 1) % Len(Nodes)
                 /\ req'[r].picked = 0 => index' = CursorAtCall(r)]_vars

\* NextNode skipped the unhealthy first node of a pool of two and returned the
\* last one: the cursor wrapped to 0
C31_Witness ==
    \E r \in DOMAIN req :
        /\ Len(Nodes) = 2 /\ ~Nodes[1].Healthy
        /\ req[r].pc = "fetch" /\ req[r].node = 2 /\ req[r].inspected = 2
        /\ index = 0

\* NextNode began at cursor 1 in a pool of two, found no healthy node, and left
\* the cursor at 1
C31_WitnessNone ==
    \E r \in DOMAIN req :
        /\ Len(Nodes) = 2 /\ index = 1
        /\ Finished(req[r]) /\ req[r].err = ErrNoHealthy
        /\ req[r].picked = 0 /\ req[r].inspected = 2

====
